---- MODULE Spec2Model ----
(***************************************************************************)
(* vecdb-go: write path, WAL durability layer and query coordination.      *)
(*                                                                         *)
(* The model follows internal/vecdb (VectorDatabase: Upsert, Query, Close, *)
(* backgroundSync), internal/persistence (Persistence: Write, Sync,        *)
(* syncLocked, Restore, truncateWAL, initCounter), internal/scalar         *)
(* (nutsDBStorage), internal/filter (IntFilterIndex) and the flat vector   *)
(* index.  The disk (WAL file, scalar store) survives a stop of the        *)
(* process; the buffered writer, the pending queue, the filter index and   *)
(* the vector index live in memory and are rebuilt by NewVectorDatabase.   *)
(***************************************************************************)
EXTENDS Integers, Sequences, FiniteSets, TLC

\* ------------------------------------------------------------------ bounds
MaxIds      == 3      \* identifiers handed out over the whole run
MaxRows     == 2      \* rows of one Upsert batch
MaxPoint    == 1      \* vectors are the points 1..MaxPoint of a line
NumClients  == 2      \* caller threads

Dim     == 3          \* params.Dim of the database under test
Clients == 1..NumClients
Points  == 1..MaxPoint

\* ---------------------------------------------------------- attribute values
\* A Go attribute value: an int64, a float64 holding a whole number, or a
\* string.  JSON text knows numbers and strings only.
IntV(n)   == [kind |-> "int",   v |-> n]
FloatV(n) == [kind |-> "float", v |-> n]
StrV      == [kind |-> "str",   v |-> 0]
NumJ(n)   == [kind |-> "num",   v |-> n]
StrJ      == [kind |-> "strj",  v |-> 0]

NoAttrs == [f \in {} |-> StrV]

\* json.Marshal of one value and of an attribute map
MarshalValue(x) == IF x.kind \in {"int", "float"} THEN NumJ(x.v) ELSE StrJ
MarshalAttrs(a) == [f \in DOMAIN a |-> MarshalValue(a[f])]

\* json.Unmarshal into map[string]any: every number comes back as float64
UnmarshalValue(j) == IF j.kind = "num" THEN FloatV(j.v) ELSE StrV
UnmarshalAttrs(j) == [f \in DOMAIN j |-> UnmarshalValue(j[f])]

\* the type switch of syncLocked's phase 2: int, int64 and whole float64 pass
CoerceOk(x)  == x.kind \in {"int", "float"}
CoerceVal(x) == x.v

\* common.ToInt64 as written: every branch falls through to "return 0, false"
ToInt64(x) == [ok |-> FALSE, v |-> 0]

\* the attribute maps callers pass in
AttrInputs ==
    { [cat |-> IntV(1)],
      [cat |-> StrV] }

\* ----------------------------------------------------------------- WAL bytes
\* EncodeRecord: the record as length-prefixed bytes with a CRC32; the doc and
\* the attributes travel as JSON.  crc is TRUE while the stored checksum
\* matches the bytes.
EncodeRecord(r) ==
    [logID |-> r.logID, id |-> r.id, vec |-> r.vec, doc |-> r.doc,
     attrs |-> MarshalAttrs(r.attrs), crc |-> TRUE]

\* DecodeRecord of an entry whose checksum matches
DecodeRecord(e) ==
    [logID |-> e.logID, id |-> e.id, vec |-> e.vec, doc |-> e.doc,
     attrs |-> UnmarshalAttrs(e.attrs)]

\* the decode loop of initCounter and Restore: records up to the first error
RECURSIVE ReadableLen(_)
ReadableLen(file) ==
    IF file = <<>> \/ ~Head(file).crc THEN 0 ELSE 1 + ReadableLen(Tail(file))

ReadRecords(file) ==
    [i \in 1..ReadableLen(file) |-> DecodeRecord(file[i])]

RECURSIVE MaxLogID(_)
MaxLogID(recs) ==
    IF recs = <<>> THEN 0
    ELSE LET m == MaxLogID(Tail(recs))
         IN  IF Head(recs).logID > m THEN Head(recs).logID ELSE m

\* ------------------------------------------------------------- scalar store
\* docs namespace: id -> stored bytes.  A value written by rollbackScalar is
\* the empty value (live = FALSE).
DocValue(r) ==
    [live |-> TRUE, id |-> r.id, doc |-> r.doc, attrs |-> MarshalAttrs(r.attrs)]
NilValue(id) ==
    [live |-> FALSE, id |-> id, doc |-> "nil", attrs |-> NoAttrs]

Put(scal, id, val) == [k \in (DOMAIN scal) \cup {id} |-> IF k = id THEN val ELSE scal[k]]

\* a numbering that starts at 1 in every call; C11 tells it from GenIncrIDs
GenIncrIDs_fromOne(maxID, count) == [i \in 1..count |-> i]

\* GenIncrIDs: maxID+1 .. maxID+count, in order
GenIncrIDs(maxID, count) == [i \in 1..count |-> maxID + i]

\* a MultiGetValue that fails on a missing key; C20 tells it from MultiGetValue
MultiGetValue_strict(scal, ids) ==
    IF \E i \in 1..Len(ids) : ids[i] \notin DOMAIN scal \/ ~scal[ids[i]].live
    THEN [err |-> TRUE, docs |-> <<>>]
    ELSE [err |-> FALSE, docs |-> [i \in 1..Len(ids) |-> scal[ids[i]]]]

\* MultiGetValue: a missing key gives an empty map, an empty value does not
\* parse and fails the whole call
MultiGetValue(scal, ids) ==
    IF \E i \in 1..Len(ids) : ids[i] \in DOMAIN scal /\ ~scal[ids[i]].live
    THEN [err |-> TRUE, docs |-> <<>>]
    ELSE [err |-> FALSE,
          docs |-> [i \in 1..Len(ids) |->
                      IF ids[i] \in DOMAIN scal THEN scal[ids[i]]
                      ELSE [live |-> TRUE, id |-> 0, doc |-> "empty", attrs |-> NoAttrs]]]

\* ------------------------------------------------------------- filter index
\* intFieldFilters as the set of <<field, value, bitmap element>>.
\* a uint64 identifier is the pair of its upper and lower 32 bits; U64 is the
\* conversion uint64(n) of a number below 2^32
U64(n) == [hi |-> 0, lo |-> n]

\* uint32(id): the lower 32 bits, the element the roaring bitmap holds
U32(id) == id.lo

\* an Upsert that leaves the bitmap as it is; C2 tells it from FilterUpsert
FilterUpsert_skip(filt, f, v, id) == filt

FilterUpsert(filt, f, v, id) == filt \cup {<<f, v, U32(id)>>}
FilterRemove(filt, f, v, id) == filt \ {<<f, v, U32(id)>>}

\* IntFilterIndex.Apply: the seed bitmap united with the selected bitmaps
Apply(filt, input, bitmap) ==
    IF input.op = "equal"
    THEN bitmap \cup {t[3] : t \in {u \in filt : u[1] = input.field /\ u[2] = input.target}}
    ELSE bitmap \cup {t[3] : t \in {u \in filt : u[1] = input.field /\ u[2] # input.target}}

\* a loop that keeps the last filter only; C17 tells it from ApplyAll
ApplyAll_last(filt, inputs, bitmap) ==
    IF inputs = <<>> THEN bitmap ELSE Apply(filt, inputs[Len(inputs)], bitmap)

\* the loop of Query over FilterInputs, starting from an empty bitmap
RECURSIVE ApplyAll(_, _, _)
ApplyAll(filt, inputs, bitmap) ==
    IF inputs = <<>> THEN bitmap
    ELSE ApplyAll(filt, Tail(inputs), Apply(filt, Head(inputs), bitmap))

FilterLists ==
    { <<>>,
      <<[field |-> "cat", op |-> "equal",     target |-> 1]>>,
      <<[field |-> "cat", op |-> "not_equal", target |-> 1]>> }

\* ------------------------------------------------------------- vector index
\* an Insert that adds the first vector of a batch only; C35 tells it from
\* Insert
Insert_first(vidx, recs) ==
    IF recs = <<>> THEN vidx
    ELSE Append(vidx, [id |-> Head(recs).id, vec |-> Head(recs).vec])

\* IDMap,Flat: the (label, vector) pairs in insertion order
Insert(vidx, recs) ==
    vidx \o [i \in 1..Len(recs) |-> [id |-> recs[i].id, vec |-> recs[i].vec]]

Labels(vidx) == {vidx[i].id : i \in 1..Len(vidx)}

Dist(p, q) == (p - q) * (p - q)

\* positions of cand ordered by distance to q, ties in storage order
Rank(vidx, cand, q, i) ==
    Cardinality({j \in cand :
        \/ Dist(vidx[j].vec, q) < Dist(vidx[i].vec, q)
        \/ Dist(vidx[j].vec, q) = Dist(vidx[i].vec, q) /\ j < i})

Nearest(vidx, cand, q, k) ==
    [r \in 1..k |->
        IF r <= Cardinality(cand)
        THEN vidx[CHOOSE i \in cand : Rank(vidx, cand, q, i) = r - 1].id
        ELSE -1]

Min(a, b) == IF a < b THEN a ELSE b

\* IdFilter.IsEmpty: the bitmap of the filter holds no identifier
IsEmpty(bitmap) == bitmap = {}

\* FlatIndex.Search: k capped to ntotal; a filter that holds identifiers
\* restricts the candidates (IDSelectorBatch over the bitmap elements), and
\* missing results are padded with -1
Search(vidx, q, k, hasFilter, bitmap) ==
    LET kk == Min(k, Len(vidx))
    IN  IF kk = 0 THEN <<>>
        ELSE IF hasFilter /\ ~IsEmpty(bitmap)
        THEN Nearest(vidx, {i \in 1..Len(vidx) : vidx[i].id \in bitmap}, q, kk)
        ELSE Nearest(vidx, 1..Len(vidx), q, kk)

\* FlatIndex.Search caps k to ntotal and returns at k = 0; a negative k passes
\* both tests and reaches the library, which answers no search of fewer than
\* one neighbour: the call ends in an error or in a panic
Faults(vidx, k) == Min(k, Len(vidx)) < 0

\* the outcomes of FlatIndex.Search as status and labels
FlatSearch(vidx, q, k, hasFilter, bitmap) ==
    IF Faults(vidx, k) THEN {[status |-> "err", labels |-> <<>>], [status |-> "panic", labels |-> <<>>]}
    ELSE {[status |-> "ok", labels |-> Search(vidx, q, k, hasFilter, bitmap)]}

\* HNSWIndex.Search: as FlatIndex.Search, but every filter goes through
\* AsSelector and SearchWithIDs.  On the few vectors of the model the graph
\* search finds the exact neighbours.  An IDSelectorBatch over no identifier
\* is left to the library: it is refused (an error or a panic) or it selects
\* nothing, and every label is -1
HnswSearch(vidx, q, k, hasFilter, bitmap) ==
    LET kk == Min(k, Len(vidx))
    IN  IF kk = 0 THEN {[status |-> "ok", labels |-> <<>>]}
        ELSE IF kk < 0
        THEN {[status |-> "err", labels |-> <<>>], [status |-> "panic", labels |-> <<>>]}
        ELSE IF hasFilter /\ bitmap = {}
        THEN {[status |-> "err", labels |-> <<>>], [status |-> "panic", labels |-> <<>>],
              [status |-> "ok", labels |-> [r \in 1..kk |-> -1]]}
        ELSE IF hasFilter
        THEN {[status |-> "ok",
               labels |-> Nearest(vidx, {i \in 1..Len(vidx) : vidx[i].id \in bitmap}, q, kk)]}
        ELSE {[status |-> "ok", labels |-> Nearest(vidx, 1..Len(vidx), q, kk)]}

\* Index.Search of the index NewIndex built
IndexSearch(kind, vidx, q, k, hasFilter, bitmap) ==
    IF kind = "flat" THEN FlatSearch(vidx, q, k, hasFilter, bitmap)
    ELSE HnswSearch(vidx, q, k, hasFilter, bitmap)

RECURSIVE DropNegative(_)
DropNegative(labels) ==
    IF labels = <<>> THEN <<>>
    ELSE IF Head(labels) >= 0 THEN <<Head(labels)>> \o DropNegative(Tail(labels))
    ELSE DropNegative(Tail(labels))

\* ---------------------------------------------------------- commit pipeline
\* the keys of an attribute map in the order a range loop visits them; Go
\* leaves the order open, rev picks one of the two orders of the model
FieldOrder == <<"cat", "tag">>

RECURSIVE KeysIn(_, _)
KeysIn(order, a) ==
    IF order = <<>> THEN <<>>
    ELSE IF Head(order) \in DOMAIN a THEN <<Head(order)>> \o KeysIn(Tail(order), a)
    ELSE KeysIn(Tail(order), a)

Reverse(s) == [i \in 1..Len(s) |-> s[Len(s) + 1 - i]]

KeySeq(a, rev) == KeysIn(IF rev THEN Reverse(FieldOrder) ELSE FieldOrder, a)

\* the visiting orders the model tries; the attribute maps of AttrInputs hold
\* one key, for which every order is the same
Orders == {FALSE}

\* a phase 1 that stores nothing; C14 tells it from PhaseScalar
PhaseScalar_none(recs, scal) == scal

\* phase 1: one Put per pending record
RECURSIVE PhaseScalar(_, _)
PhaseScalar(recs, scal) ==
    IF recs = <<>> THEN scal
    ELSE PhaseScalar(Tail(recs), Put(scal, Head(recs).id, DocValue(Head(recs))))

\* phase 2, one record: Upsert per attribute until a value does not coerce
RECURSIVE FilterRecord(_, _, _)
FilterRecord(r, keys, filt) ==
    IF keys = <<>> THEN [ok |-> TRUE, filt |-> filt]
    ELSE IF ~CoerceOk(r.attrs[Head(keys)]) THEN [ok |-> FALSE, filt |-> filt]
    ELSE FilterRecord(r, Tail(keys),
                      FilterUpsert(filt, Head(keys), CoerceVal(r.attrs[Head(keys)]), U64(r.id)))

\* phase 2: the records in order; applied collects the finished records
RECURSIVE PhaseFilter(_, _, _, _)
PhaseFilter(recs, filt, applied, rev) ==
    IF recs = <<>> THEN [ok |-> TRUE, filt |-> filt, applied |-> applied]
    ELSE IF DOMAIN Head(recs).attrs = {} THEN PhaseFilter(Tail(recs), filt, applied, rev)
    ELSE LET one == FilterRecord(Head(recs), KeySeq(Head(recs).attrs, rev), filt)
         IN  IF one.ok
             THEN PhaseFilter(Tail(recs), one.filt, Append(applied, Head(recs)), rev)
             ELSE [ok |-> FALSE, filt |-> one.filt, applied |-> applied]

\* rollbackScalar: Put(key, nil) for every applied identifier
RECURSIVE RollbackScalar(_, _)
RollbackScalar(scal, recs) ==
    IF recs = <<>> THEN scal
    ELSE RollbackScalar(Put(scal, Head(recs).id, NilValue(Head(recs).id)), Tail(recs))

\* rollbackFilter: Remove for every attribute that ToInt64 converts
RECURSIVE RollbackRecord(_, _, _)
RollbackRecord(r, keys, filt) ==
    IF keys = <<>> THEN filt
    ELSE LET c == ToInt64(r.attrs[Head(keys)])
         IN  RollbackRecord(r, Tail(keys),
                            IF c.ok THEN FilterRemove(filt, Head(keys), c.v, U64(r.id)) ELSE filt)

RECURSIVE RollbackFilter(_, _)
RollbackFilter(filt, recs) ==
    IF recs = <<>> THEN filt
    ELSE RollbackFilter(RollbackRecord(Head(recs), KeySeq(Head(recs).attrs, FALSE), filt),
                        Tail(recs))

\* the faults the environment can hand to one syncLocked call: none, a failing
\* bufWriter.Flush, a failing walWriter.Sync, a failing scalarStorage.Put (at
\* the record of that position) and a failing vectorIndex.Insert
SyncFaults == {"none", "flush", "fsync", "put", "insert"}

\* a queue that keeps its records after a successful commit; C30 tells it
\* from ClearPending
ClearPending_keep(pending) == pending

\* p.pendingLogs = make([]WALRecord, 0, 100)
ClearPending(pending) == <<>>

\* a flush that is never seen to fail; C25 tells it from FlushFails
FlushFails_never(fault) == FALSE

\* the error tests after bufWriter.Flush and walWriter.Sync
FlushFails(fault) == fault \in {"flush", "fsync"}

\* the step at which syncLocked returns an error, "none" when it returns nil
FailsIn(m, rev, fault, at) ==
    IF m.pending = <<>> THEN "none"
    ELSE IF FlushFails(fault) THEN fault
    ELSE IF fault = "put" /\ at \in 1..Len(m.pending) THEN "put"
    ELSE IF ~PhaseFilter(m.pending, m.filt, <<>>, rev).ok THEN "filter"
    ELSE IF fault = "insert" THEN "insert"
    ELSE "none"

\* syncLocked on the state m = [pending, buf, file, scal, filt, vidx]:
\* flush, phase 1, phase 2, phase 3, clear.  A failure rolls back what its
\* phase names and returns with the pending queue as it was.
SyncLockedWith(m, rev, fault, at) ==
    LET ph      == FailsIn(m, rev, fault, at)
        \* what bufWriter.Flush leaves: the bytes in the file unless it failed
        flushed == IF fault = "flush" THEN m
                   ELSE [m EXCEPT !.file = m.file \o m.buf, !.buf = <<>>]
        before  == SubSeq(m.pending, 1, at - 1)
        scal1   == PhaseScalar(m.pending, m.scal)
        ph2     == PhaseFilter(m.pending, m.filt, <<>>, rev)
    IN  IF m.pending = <<>> THEN [m EXCEPT !.err = FALSE]
        ELSE IF ph = "flush" THEN [flushed EXCEPT !.err = TRUE]
        ELSE IF ph = "fsync" THEN [flushed EXCEPT !.err = TRUE]
        ELSE IF ph = "put"
        THEN [flushed EXCEPT !.err  = TRUE,
                             !.scal = RollbackScalar(PhaseScalar(before, m.scal), before)]
        ELSE IF ph = "filter"
        THEN [flushed EXCEPT !.err  = TRUE,
                             !.scal = RollbackScalar(scal1, m.pending),
                             !.filt = RollbackFilter(ph2.filt, ph2.applied)]
        ELSE IF ph = "insert"
        THEN [flushed EXCEPT !.err  = TRUE,
                             !.scal = RollbackScalar(scal1, m.pending),
                             !.filt = RollbackFilter(ph2.filt, ph2.applied)]
        ELSE [flushed EXCEPT !.err     = FALSE,
                             !.scal    = scal1,
                             !.filt    = ph2.filt,
                             !.vidx    = Insert(m.vidx, m.pending),
                             !.pending = ClearPending(m.pending)]

\* syncLocked where the file, the scalar store and the index library work
SyncLocked(m, rev) == SyncLockedWith(m, rev, "none", 0)

\* Persistence.Write with eager = true: next log id, encode into the buffered
\* writer, append to the pending queue, syncLocked
WriteWith(m, ctr, id, vec, doc, attrs, rev, fault) ==
    LET rec == [logID |-> ctr + 1, id |-> id, vec |-> vec, doc |-> doc, attrs |-> attrs]
    IN  SyncLockedWith([m EXCEPT !.buf = Append(m.buf, EncodeRecord(rec)),
                                 !.pending = Append(m.pending, rec)], rev, fault, 1)

\* Write where the file, the scalar store and the index library work
Write(m, ctr, id, vec, doc, attrs, rev) == WriteWith(m, ctr, id, vec, doc, attrs, rev, "none")

\* a Restore that truncates the file whatever Sync returned; C32 tells it
\* from Restore
Restore_truncating(m, rev) ==
    [SyncLocked([m EXCEPT !.pending = ReadRecords(m.file)], rev)
        EXCEPT !.file = <<>>, !.buf = <<>>]

\* Persistence.Restore on a freshly opened WAL: nothing to do for an empty
\* file or when no record decodes; otherwise the decoded records become the
\* pending queue, Sync applies them and the file is truncated on success
Restore(m, rev) ==
    IF m.file = <<>> THEN [m EXCEPT !.err = FALSE]
    ELSE LET records == ReadRecords(m.file)
         IN  IF records = <<>> THEN [m EXCEPT !.err = FALSE]
             ELSE LET s == SyncLocked([m EXCEPT !.pending = records], rev)
                  IN  IF s.err THEN s
                      ELSE [s EXCEPT !.file = <<>>, !.buf = <<>>]

\* initCounter: 0 for an empty file, else the largest log id that decodes
InitCounter(file) == IF file = <<>> THEN 0 ELSE MaxLogID(ReadRecords(file))

\* VdbUpsertArgs.Validate: the field whose length is wrong, "" when none is
Validate(rows, docsLen, attrsLen) ==
    IF docsLen # rows THEN "docs"
    ELSE IF attrsLen > 0 /\ attrsLen # rows THEN "attributes"
    ELSE ""

\* a check that lets every width pass; C8 tells it from DimOk
DimOk_any(cols) == TRUE

\* the dimension check of Upsert and Query
DimOk(cols) == cols = Dim

\* -------------------------------------------------------------------- state
VARIABLES
    open,          \* a VectorDatabase exists on the directory
    closing,       \* stopSync is closed
    walFile,       \* disk: the entries of vdb.log
    scalar,        \* disk: the docs namespace of scalar.db
    idMax,         \* disk: the __id_max__ entry of the docs namespace
    walBuf,        \* Persistence.bufWriter: encoded entries not yet written
    counter,       \* Persistence.counter
    pendingLogs,   \* Persistence.pendingLogs
    filterIndex,   \* IntFilterIndex.intFieldFilters
    vectorIndex,   \* the flat index
    muWriter,      \* db.mu: the client holding the write lock across steps, or 0
    muReaders,     \* db.mu: the clients holding the read lock
    cl,            \* per caller thread: the position in Upsert or Query
    flusher,       \* backgroundSync: "off", "wait", "lock" or "done"
    restoreErr,    \* what Restore returned at the last open
    ret,           \* the call that returned in the last step, if one did
    acked,         \* history: identifiers of the batches Upsert returned nil for
    clean,         \* history: only successful Upserts, Queries and clean closes
    handed,        \* history: identifiers GenIncrIDs has returned
    batches,       \* history: the identifier sets of the Upsert batches
    encoded,       \* history: WAL records encoded since the directory was created
    gen,           \* GenIncrIDs callers on one scalar store (GenSpec)
    fx,            \* an IntFilterIndex under Upsert, Remove and Apply (FilterSpec)
    ux,            \* an index and a scalar store under Search and MultiGetValue (UnitSpec)
    lk,            \* db.mu and p.mu under their lock and unlock calls (LockSpec)
    rx             \* a Restore call next to other callers of the Persistence (RestoreSpec)

disk    == <<walFile, scalar, idMax>>
memory  == <<walBuf, counter, pendingLogs, filterIndex, vectorIndex>>
locks   == <<muWriter, muReaders>>
history == <<acked, clean>>
ledger  == <<handed, batches, encoded>>
bench   == <<gen, fx, ux, lk, rx>>
dbVars  == <<open, closing, disk, memory, locks, cl, flusher, restoreErr,
             ret, history, ledger>>
vars    == <<dbVars, bench>>

\* the stores syncLocked works on, and their assignment
Mem ==
    [pending |-> pendingLogs, buf |-> walBuf, file |-> walFile, scal |-> scalar,
     filt |-> filterIndex, vidx |-> vectorIndex, err |-> FALSE]

Store(m) ==
    /\ pendingLogs' = m.pending
    /\ walBuf'      = m.buf
    /\ walFile'     = m.file
    /\ scalar'      = m.scal
    /\ filterIndex' = m.filt
    /\ vectorIndex' = m.vidx

Idle == [pc |-> "idle", rows |-> 0, cols |-> 0, i |-> 0, ids |-> <<>>, logs |-> <<>>,
         hasAttrs |-> FALSE, full |-> FALSE, seen |-> {}]

NoArgs == [rows |-> 0, cols |-> 0, docsLen |-> 0, attrsLen |-> 0]
NoRet  == [op |-> "none", status |-> "none", args |-> NoArgs,
           ids |-> <<>>, logs |-> <<>>, full |-> FALSE, seen |-> {}]

UpsertRet(status, args, ids, logs) ==
    [op |-> "upsert", status |-> status, args |-> args,
     ids |-> ids, logs |-> logs, full |-> FALSE, seen |-> {}]

QueryRet(status, ids, full, seen) ==
    [op |-> "query", status |-> status, args |-> NoArgs,
     ids |-> ids, logs |-> <<>>, full |-> full, seen |-> seen]

\* ----------------------------------------- GenIncrIDs callers on one store
NumThreads == 3       \* threads calling GenIncrIDs
MaxCount   == 2       \* largest count of one call
MaxPrev    == 1       \* largest ceiling the namespace starts with
Threads    == 1..NumThreads

\* gen.max is the __id_max__ entry, gen.prev its value before the calls, gen.tx
\* the thread inside db.Update, gen.th the position of every thread
GenIdle == [pc |-> "idle", count |-> 0, read |-> 0, ids |-> <<>>]
NoGen   == [max |-> 0, prev |-> 0, tx |-> 0, th |-> [t \in Threads |-> GenIdle]]

\* an Update transaction that never waits; C12 tells it from TxFree
TxFree_open == TRUE

\* db.Update runs one writing transaction at a time
TxFree == gen.tx = 0

\* a write lock that never waits; C10 tells it from MuFree
MuFree_open == TRUE

\* a Wait that returns at once; C26 tells it from FlusherExited
FlusherExited_any == TRUE

\* db.syncDone.Wait returns when backgroundSync has run its deferred Done
FlusherExited == flusher = "done"

\* a read lock that never waits; C24 tells it from MuNoWriter
MuNoWriter_open == TRUE

\* db.mu.Lock and db.mu.RLock go through when
MuFree     == muWriter = 0 /\ muReaders = {}
MuNoWriter == muWriter = 0

\* the stores of the other specifications, not in use
NoOut == [list |-> <<>>, got |-> {}]
NoFx  == [idx |-> {}, live |-> {}, out |-> NoOut]
NoCall == [op |-> "none", kind |-> "none", q |-> 0, k |-> 0, has |-> FALSE, bitmap |-> {},
           req |-> <<>>, status |-> "none", labels |-> <<>>, docs |-> <<>>]
NoUx   == [vidx |-> <<>>, scal |-> <<>>, out |-> NoCall]

\* no Restore call has been made
NoRx == [pc |-> "none", read |-> <<>>]

\* the goroutines of LockSpec: two callers of Upsert and Query, backgroundSync
\* and the caller of Close
Callers     == {"t1", "t2"}
LockThreads == Callers \cup {"flusher", "closer"}
NoThread    == "none"

\* both locks free, nobody in a call, backgroundSync in its select
NoLk == [pc   |-> [t \in LockThreads |-> "idle"],
         dbW  |-> NoThread,       \* db.mu: the goroutine holding the write lock
         dbQ  |-> {},             \* db.mu: goroutines blocked in Lock()
         dbR  |-> {},             \* db.mu: goroutines holding the read lock
         wal  |-> NoThread,       \* p.mu: the goroutine holding it
         pend |-> FALSE,          \* len(p.pendingLogs) > 0
         stop |-> FALSE,          \* db.stopSync is closed
         held |-> [t \in LockThreads |-> <<>>]]   \* locks held, oldest first

DbInit ==
    /\ open = TRUE
    /\ closing = FALSE
    /\ walFile = <<>>
    /\ scalar = [k \in {} |-> NilValue(0)]
    /\ idMax = 0
    /\ walBuf = <<>>
    /\ counter = 0
    /\ pendingLogs = <<>>
    /\ filterIndex = {}
    /\ vectorIndex = <<>>
    /\ muWriter = 0
    /\ muReaders = {}
    /\ cl = [c \in Clients |-> Idle]
    /\ flusher = "wait"
    /\ restoreErr = "ok"
    /\ ret = NoRet
    /\ acked = {}
    /\ clean = TRUE
    /\ handed = {}
    /\ batches = {}
    /\ encoded = 0

Init == DbInit /\ gen = NoGen /\ fx = NoFx /\ ux = NoUx /\ lk = NoLk /\ rx = NoRx

\* ------------------------------------------------------------------- Upsert
\* Upsert up to the row loop: db.mu.Lock, Validate, the dimension check,
\* GenIncrIDs.  A rejected call returns here and releases the lock.
UpsertBegin(c, rows, cols, docsLen, attrsLen) ==
    /\ open /\ ~closing
    /\ cl[c].pc = "idle"
    /\ MuFree
    /\ LET args == [rows |-> rows, cols |-> cols, docsLen |-> docsLen, attrsLen |-> attrsLen]
       IN  IF Validate(rows, docsLen, attrsLen) # "" \/ ~DimOk(cols)
           THEN /\ ret' = UpsertRet("rejected", args, <<>>, <<>>)
                /\ clean' = FALSE
                /\ UNCHANGED <<idMax, muWriter, cl, handed, batches>>
           ELSE /\ idMax + rows <= MaxIds
                /\ idMax' = idMax + rows
                /\ muWriter' = c
                /\ cl' = [cl EXCEPT ![c] = [Idle EXCEPT !.pc = "u_row", !.rows = rows, !.cols = cols,
                                                        !.i = 1,
                                                        !.ids = GenIncrIDs(idMax, rows),
                                                        !.hasAttrs = attrsLen > 0]]
                /\ ret' = NoRet
                /\ handed' = handed \cup {GenIncrIDs(idMax, rows)[i] : i \in 1..rows}
                /\ batches' = batches \cup {{GenIncrIDs(idMax, rows)[i] : i \in 1..rows}}
                /\ UNCHANGED clean
    /\ UNCHANGED <<open, closing, walFile, scalar, memory, muReaders,
                   flusher, restoreErr, acked>>
    /\ UNCHANGED encoded
    /\ UNCHANGED bench

\* the arguments of a call that reached the row loop
ArgsOf(me) ==
    [rows |-> me.rows, cols |-> me.cols, docsLen |-> me.rows,
     attrsLen |-> IF me.hasAttrs THEN me.rows ELSE 0]

\* one turn of the row loop: Persistence.Write(ids[i], ..., eager = true);
\* the first error ends the call, the last row ends it with nil
UpsertRowWith(c, vec, attrs, rev, fault) ==
    /\ open
    /\ cl[c].pc = "u_row"
    /\ attrs \in (IF cl[c].hasAttrs THEN AttrInputs ELSE {NoAttrs})
    /\ LET me   == cl[c]
           m    == WriteWith(Mem, counter, me.ids[me.i], vec, "doc", attrs, rev, fault)
           logs == Append(me.logs, counter + 1)
       IN  /\ counter' = counter + 1
           /\ Store(m)
           /\ IF m.err
              THEN /\ cl' = [cl EXCEPT ![c] = Idle]
                   /\ ret' = UpsertRet("err", ArgsOf(me), me.ids, logs)
                   /\ muWriter' = 0
                   /\ clean' = FALSE
                   /\ UNCHANGED acked
              ELSE IF me.i = me.rows
              THEN /\ cl' = [cl EXCEPT ![c] = Idle]
                   /\ ret' = UpsertRet("ok", ArgsOf(me), me.ids, logs)
                   /\ muWriter' = 0
                   /\ acked' = acked \cup {me.ids[j] : j \in 1..me.rows}
                   /\ UNCHANGED clean
              ELSE /\ cl' = [cl EXCEPT ![c].i = me.i + 1, ![c].logs = logs]
                   /\ ret' = NoRet
                   /\ UNCHANGED <<muWriter, acked, clean>>
    /\ UNCHANGED <<open, closing, idMax, muReaders, flusher, restoreErr>>
    /\ encoded' = encoded + 1
    /\ UNCHANGED <<handed, batches>>
    /\ UNCHANGED bench

\* one turn of the row loop where the file, the scalar store and the index
\* library work
UpsertRow(c, vec, attrs, rev) == UpsertRowWith(c, vec, attrs, rev, "none")

\* -------------------------------------------------------------------- Query
\* db.mu.RLock and the first GetPendingCount: with pending records the read
\* lock is given up and the call goes for the write lock.  (The arguments of
\* the call are not read before the search; the model draws them there.)
QueryBegin(c) ==
    /\ open /\ ~closing
    /\ cl[c].pc = "idle"
    /\ MuNoWriter
    /\ IF Len(pendingLogs) > 0
       THEN /\ cl' = [cl EXCEPT ![c] = [Idle EXCEPT !.pc = "q_upgrade", !.seen = acked]]
            /\ UNCHANGED muReaders
       ELSE /\ cl' = [cl EXCEPT ![c] = [Idle EXCEPT !.pc = "q_search", !.seen = acked]]
            /\ muReaders' = muReaders \cup {c}
    /\ ret' = NoRet
    /\ UNCHANGED <<open, closing, disk, memory, muWriter, flusher,
                   restoreErr, history>>
    /\ UNCHANGED ledger
    /\ UNCHANGED bench

\* db.mu.Lock, the second GetPendingCount, Sync, db.mu.Unlock
QueryUpgrade(c, rev) ==
    /\ open
    /\ cl[c].pc = "q_upgrade"
    /\ MuFree
    /\ LET m == SyncLocked(Mem, rev)
       IN  /\ Store(m)
           /\ cl' = [cl EXCEPT ![c].pc = IF m.err THEN "q_errlock" ELSE "q_relock"]
    /\ ret' = NoRet
    /\ UNCHANGED <<open, closing, idMax, counter, locks, flusher,
                   restoreErr, history>>
    /\ UNCHANGED ledger
    /\ UNCHANGED bench

\* db.mu.RLock after the upgrade; after a failed Sync the call returns the
\* error and the deferred RUnlock runs
QueryRelock(c) ==
    /\ open
    /\ cl[c].pc \in {"q_relock", "q_errlock"}
    /\ MuNoWriter
    /\ IF cl[c].pc = "q_errlock"
       THEN /\ cl' = [cl EXCEPT ![c] = Idle]
            /\ ret' = QueryRet("err", <<>>, TRUE, cl[c].seen)   \* whatever was asked
            /\ UNCHANGED muReaders
       ELSE /\ cl' = [cl EXCEPT ![c].pc = "q_search"]
            /\ ret' = NoRet
            /\ muReaders' = muReaders \cup {c}
    /\ UNCHANGED <<open, closing, disk, memory, muWriter, flusher,
                   restoreErr, history>>
    /\ UNCHANGED ledger
    /\ UNCHANGED bench

\* the restriction Query hands to the index: none without FilterInputs
Restriction(filt, inputs) == ApplyAll(filt, inputs, {})

\* whether a query is one the retrieval guarantee speaks of: no filter and k
\* not below the number of identifiers handed out, hence not below the
\* number of committed records
FullScan(k, filt) == filt = <<>> /\ k >= idMax

\* the dimension check, the filters and vectorIndex.Search; an empty label
\* list ends the call, else the non-negative labels go on to the scalar store
QuerySearch(c, k, q, qlen, filt) ==
    /\ open
    /\ cl[c].pc = "q_search"
    /\ c \in muReaders
    /\ LET me     == cl[c]
           labels == Search(vectorIndex, q, k, filt # <<>>, Restriction(filterIndex, filt))
       IN  IF ~DimOk(qlen)
           THEN /\ cl' = [cl EXCEPT ![c] = Idle]
                /\ ret' = QueryRet("rejected", <<>>, FALSE, me.seen)
                /\ muReaders' = muReaders \ {c}
           ELSE IF Faults(vectorIndex, k)
           THEN /\ cl' = [cl EXCEPT ![c] = Idle]
                /\ \E st \in {"err", "panic"} : ret' = QueryRet(st, <<>>, FALSE, me.seen)
                /\ muReaders' = muReaders \ {c}
           ELSE IF Len(labels) = 0
           THEN /\ cl' = [cl EXCEPT ![c] = Idle]
                /\ ret' = QueryRet("ok", <<>>, FullScan(k, filt), me.seen)
                /\ muReaders' = muReaders \ {c}
           ELSE /\ cl' = [cl EXCEPT ![c].pc = "q_hydrate", ![c].ids = DropNegative(labels),
                                    ![c].full = FullScan(k, filt)]
                /\ ret' = NoRet
                /\ UNCHANGED muReaders
    /\ UNCHANGED <<open, closing, disk, memory, muWriter, flusher,
                   restoreErr, history>>
    /\ UNCHANGED ledger
    /\ UNCHANGED bench

\* scalarStorage.MultiGetValue and the return; the deferred RUnlock runs
QueryHydrate(c) ==
    /\ open
    /\ cl[c].pc = "q_hydrate"
    /\ c \in muReaders
    /\ LET me  == cl[c]
           got == MultiGetValue(scalar, me.ids)
       IN  ret' = IF got.err
                  THEN QueryRet("err", <<>>, me.full, me.seen)
                  ELSE QueryRet("ok", [i \in 1..Len(got.docs) |-> got.docs[i].id],
                                me.full, me.seen)
    /\ cl' = [cl EXCEPT ![c] = Idle]
    /\ muReaders' = muReaders \ {c}
    /\ UNCHANGED <<open, closing, disk, memory, muWriter, flusher,
                   restoreErr, history>>
    /\ UNCHANGED ledger
    /\ UNCHANGED bench

\* ----------------------------------------------------------- backgroundSync
\* the ticker case: GetPendingCount without db.mu
FlushTick ==
    /\ open
    /\ flusher = "wait"
    /\ Len(pendingLogs) > 0
    /\ flusher' = "lock"
    /\ ret' = NoRet
    /\ UNCHANGED <<open, closing, disk, memory, locks, cl, restoreErr, history>>
    /\ UNCHANGED ledger
    /\ UNCHANGED bench

\* a worker that returns when Sync fails; C31 tells it from AfterSync
AfterSync_exit(err) == IF err THEN "done" ELSE "wait"

\* the ticker case after Sync: the error is logged and the loop goes on
AfterSync(err) == "wait"

\* db.mu.Lock, the second GetPendingCount, Sync (an error is logged),
\* db.mu.Unlock
FlushSync(rev) ==
    /\ open
    /\ flusher = "lock"
    /\ MuFree
    /\ Store(SyncLocked(Mem, rev))
    /\ flusher' = AfterSync(SyncLocked(Mem, rev).err)
    /\ ret' = NoRet
    /\ UNCHANGED <<open, closing, idMax, counter, locks, cl, restoreErr, history>>
    /\ UNCHANGED ledger
    /\ UNCHANGED bench

\* the stopSync case: a last Sync under db.mu, then the goroutine ends
FlushStop(rev) ==
    /\ open /\ closing
    /\ flusher = "wait"
    /\ MuFree
    /\ Store(SyncLocked(Mem, rev))
    /\ flusher' = "done"
    /\ ret' = NoRet
    /\ UNCHANGED <<open, closing, idMax, counter, locks, cl, restoreErr, history>>
    /\ UNCHANGED ledger
    /\ UNCHANGED bench

\* -------------------------------------------------------------------- Close
\* close(db.stopSync)
CloseBegin ==
    /\ open /\ ~closing
    /\ closing' = TRUE
    /\ ret' = NoRet
    /\ UNCHANGED <<open, disk, memory, locks, cl, flusher, restoreErr, history>>
    /\ UNCHANGED ledger
    /\ UNCHANGED bench

\* after syncDone.Wait: db.mu.Lock, persistence.Flush, persistence.Close,
\* scalarStorage.Close.  The callers have returned.  The indexes keep what
\* they held, for the comparison with the next session.
CloseFinish ==
    /\ open /\ closing
    /\ FlusherExited
    /\ MuFree
    /\ \A c \in Clients : cl[c].pc = "idle"
    /\ open' = FALSE
    /\ closing' = FALSE
    /\ flusher' = IF flusher = "done" THEN "off" ELSE flusher
    /\ walFile' = walFile \o walBuf
    /\ walBuf' = <<>>
    /\ pendingLogs' = <<>>
    /\ counter' = 0
    /\ ret' = NoRet
    /\ UNCHANGED <<scalar, idMax, filterIndex, vectorIndex, locks, cl,
                   restoreErr, history>>
    /\ UNCHANGED ledger
    /\ UNCHANGED bench

\* ------------------------------------------------------------- process stop
\* what a kill leaves: the disk; the indexes keep what they held, for the
\* comparison with the next session
Killed ==
    /\ open' = FALSE
    /\ closing' = FALSE
    /\ flusher' = "off"
    /\ walBuf' = <<>>
    /\ pendingLogs' = <<>>
    /\ counter' = 0
    /\ muWriter' = 0
    /\ muReaders' = {}
    /\ cl' = [c \in Clients |-> Idle]
    /\ ret' = NoRet
    /\ clean' = FALSE
    /\ UNCHANGED <<scalar, idMax, filterIndex, vectorIndex, restoreErr, acked>>
    /\ UNCHANGED <<handed, batches>>
    /\ UNCHANGED bench

\* the process is killed: what the buffered writer holds is lost
Crash ==
    /\ open
    /\ walFile' = walFile
    /\ Killed
    /\ UNCHANGED encoded

\* the process is killed inside Write, after syncLocked flushed and fsynced
\* the record and before phase 1
CrashInWrite(c, vec, attrs) ==
    /\ open
    /\ cl[c].pc = "u_row"
    /\ attrs \in (IF cl[c].hasAttrs THEN AttrInputs ELSE {NoAttrs})
    /\ LET rec == [logID |-> counter + 1, id |-> cl[c].ids[cl[c].i], vec |-> vec,
                   doc |-> "doc", attrs |-> attrs]
       IN  walFile' = walFile \o walBuf \o <<EncodeRecord(rec)>>
    /\ Killed
    /\ encoded' = encoded + 1

\* a byte of entry j of vdb.log is flipped while no process has the file open
Corrupt(j) ==
    /\ ~open
    /\ j \in 1..Len(walFile)
    /\ \A i \in 1..Len(walFile) : walFile[i].crc
    /\ walFile' = [walFile EXCEPT ![j].crc = FALSE]
    /\ clean' = FALSE
    /\ ret' = NoRet
    /\ UNCHANGED <<open, closing, scalar, idMax, memory, locks, cl, flusher,
                   restoreErr, acked>>
    /\ UNCHANGED ledger
    /\ UNCHANGED bench

\* -------------------------------------------------------- NewVectorDatabase
\* scalar store opened on the directory, empty indexes, NewPersistenceWithEncoder
\* (initCounter), Restore (an error is logged), the flusher is started
Open(rev) ==
    /\ ~open
    /\ LET m == Restore([pending |-> <<>>, buf |-> <<>>, file |-> walFile, scal |-> scalar,
                         filt |-> {}, vidx |-> <<>>, err |-> FALSE], rev)
       IN  /\ Store(m)
           /\ restoreErr' = IF m.err THEN "err" ELSE "ok"
    /\ counter' = InitCounter(walFile)
    /\ open' = TRUE
    /\ flusher' = "wait"
    /\ ret' = NoRet
    /\ UNCHANGED <<closing, idMax, locks, cl, history>>
    /\ UNCHANGED ledger
    /\ UNCHANGED bench

AttrChoices == AttrInputs \cup {NoAttrs}

\* the batches tried: every combination of list lengths with vectors of Dim
\* columns, and well-formed lists with vectors one column short
UpsertInputs ==
    [rows : 1..MaxRows, cols : {Dim}, docsLen : 0..MaxRows, attrsLen : 0..MaxRows]
    \cup { [rows |-> r, cols |-> Dim - 1, docsLen |-> r, attrsLen |-> 0] : r \in 1..MaxRows }

\* the queries tried: every k from -1 on, point and filter list with a query
\* of Dim numbers, and one query a number too long
QueryInputs ==
    [k : (-1)..MaxIds, q : Points, qlen : {Dim}, filt : FilterLists]
    \cup { [k |-> 1, q |-> 1, qlen |-> Dim + 1, filt |-> <<>>] }

Next ==
    \/ \E c \in Clients, a \in UpsertInputs :
            UpsertBegin(c, a.rows, a.cols, a.docsLen, a.attrsLen)
    \/ \E c \in Clients, vec \in Points, attrs \in AttrChoices, rev \in Orders :
            UpsertRow(c, vec, attrs, rev)
    \/ \E c \in Clients : QueryBegin(c)
    \/ \E c \in Clients, rev \in Orders : QueryUpgrade(c, rev)
    \/ \E c \in Clients : QueryRelock(c)
    \/ \E c \in Clients, a \in QueryInputs :
            QuerySearch(c, a.k, a.q, a.qlen, a.filt)
    \/ \E c \in Clients : QueryHydrate(c)
    \/ FlushTick
    \/ \E rev \in Orders : FlushSync(rev)
    \/ \E rev \in Orders : FlushStop(rev)
    \/ CloseBegin
    \/ CloseFinish
    \/ Crash
    \/ \E c \in Clients, vec \in Points, attrs \in AttrChoices : CrashInWrite(c, vec, attrs)
    \/ \E j \in 1..MaxIds : Corrupt(j)
    \/ \E rev \in Orders : Open(rev)

Spec == Init /\ [][Next]_vars


\* the calls in flight go on, the flusher gets db.mu when it is free, the
\* select of backgroundSync takes the stop case when it is ready often
\* enough, and Close goes on when it can
ClientStep ==
    \/ \E c \in Clients, vec \in Points, attrs \in AttrChoices, rev \in Orders :
          UpsertRow(c, vec, attrs, rev)
    \/ \E c \in Clients, rev \in Orders : QueryUpgrade(c, rev)
    \/ \E c \in Clients : QueryRelock(c)
    \/ \E c \in Clients, a \in QueryInputs : QuerySearch(c, a.k, a.q, a.qlen, a.filt)
    \/ \E c \in Clients : QueryHydrate(c)

\* one session, from NewVectorDatabase to the return of Close
SessionNext ==
    \/ \E c \in Clients, a \in UpsertInputs :
            UpsertBegin(c, a.rows, a.cols, a.docsLen, a.attrsLen)
    \/ \E c \in Clients : QueryBegin(c)
    \/ ClientStep
    \/ FlushTick
    \/ \E rev \in Orders : FlushSync(rev)
    \/ \E rev \in Orders : FlushStop(rev)
    \/ CloseBegin
    \/ CloseFinish

SessionSpec ==
    /\ Init /\ [][SessionNext]_vars
    /\ WF_vars(ClientStep)
    /\ WF_vars(\E rev \in Orders : FlushSync(rev))
    /\ SF_vars(\E rev \in Orders : FlushStop(rev))
    /\ WF_vars(CloseFinish)

\* one session in which a Write of Upsert can meet a failing flush, fsync,
\* Put or Insert
FaultyNext ==
    \/ SessionNext
    \/ \E c \in Clients, vec \in Points, attrs \in AttrChoices, rev \in Orders,
           fault \in SyncFaults \ {"none"} : UpsertRowWith(c, vec, attrs, rev, fault)

FaultySpec == Init /\ [][FaultyNext]_vars

\* one session of one caller of Upsert, whose Writes can meet a failing
\* vectorIndex.Insert, next to backgroundSync and Close.  The ticker fires again and again, db.mu
\* hands the lock to a waiting goroutine (sync.RWMutex does not starve one),
\* and a call in flight goes on.
Writer == CHOOSE c \in Clients : TRUE

WriterStep ==
    \E vec \in Points, attrs \in AttrChoices, rev \in Orders, fault \in {"none", "insert"} :
        UpsertRowWith(Writer, vec, attrs, rev, fault)

FlusherNext ==
    \/ \E a \in UpsertInputs : UpsertBegin(Writer, a.rows, a.cols, a.docsLen, a.attrsLen)
    \/ WriterStep
    \/ FlushTick
    \/ \E rev \in Orders : FlushSync(rev)
    \/ \E rev \in Orders : FlushStop(rev)
    \/ CloseBegin
    \/ CloseFinish

FlusherSpec ==
    /\ Init /\ [][FlusherNext]_vars
    /\ WF_vars(WriterStep)
    /\ WF_vars(FlushTick)
    /\ SF_vars(\E rev \in Orders : FlushSync(rev))

\* ------------------------------------------------- GenIncrIDs, concurrently
\* db.Update begins and tx.Get reads the ceiling
GenBegin(t, n) ==
    /\ gen.th[t].pc = "idle"
    /\ TxFree
    /\ gen' = [gen EXCEPT !.tx = t,
                          !.th[t] = [pc |-> "read", count |-> n, read |-> gen.max, ids |-> <<>>]]
    /\ UNCHANGED <<dbVars, fx, ux, lk, rx>>

\* the identifiers are numbered from the ceiling read and tx.Put stores the
\* new ceiling
GenPut(t) ==
    /\ gen.th[t].pc = "read"
    /\ LET me == gen.th[t]
       IN  gen' = [gen EXCEPT !.max = me.read + me.count,
                              !.th[t].pc = "put",
                              !.th[t].ids = GenIncrIDs(me.read, me.count)]
    /\ UNCHANGED <<dbVars, fx, ux, lk, rx>>

\* the transaction commits and GenIncrIDs returns
GenCommit(t) ==
    /\ gen.th[t].pc = "put"
    /\ gen' = [gen EXCEPT !.tx = 0, !.th[t].pc = "done"]
    /\ UNCHANGED <<dbVars, fx, ux, lk, rx>>

GenInit ==
    /\ DbInit /\ fx = NoFx /\ ux = NoUx /\ lk = NoLk /\ rx = NoRx
    /\ \E p \in 0..MaxPrev : gen = [NoGen EXCEPT !.max = p, !.prev = p]

GenNext ==
    \/ \E t \in Threads, n \in 1..MaxCount : GenBegin(t, n)
    \/ \E t \in Threads : GenPut(t)
    \/ \E t \in Threads : GenCommit(t)

GenSpec == GenInit /\ [][GenNext]_vars

\* --------------------------------------------------- Persistence on its own
\* Persistence.WriteOnly: next log id, encode into the buffered writer, append
\* to the pending queue.  The caller numbers the vectors as it writes them.
WriteOnly(vec, attrs) ==
    /\ open
    /\ counter < MaxIds
    /\ LET rec == [logID |-> counter + 1, id |-> counter + 1, vec |-> vec,
                   doc |-> "doc", attrs |-> attrs]
       IN  /\ walBuf' = Append(walBuf, EncodeRecord(rec))
           /\ pendingLogs' = Append(pendingLogs, rec)
    /\ counter' = counter + 1
    /\ encoded' = encoded + 1
    /\ ret' = NoRet
    /\ UNCHANGED <<open, closing, walFile, scalar, idMax, filterIndex, vectorIndex,
                   locks, cl, flusher, restoreErr, history, handed, batches>>
    /\ UNCHANGED bench

\* Persistence.Sync under the fault drawn; ret names the step that failed
Sync(rev, fault, at) ==
    /\ open
    /\ at \in 0..Len(pendingLogs)
    /\ (fault = "put") = (at > 0)
    /\ Store(SyncLockedWith(Mem, rev, fault, at))
    /\ ret' = [NoRet EXCEPT !.op = "sync", !.status = FailsIn(Mem, rev, fault, at)]
    /\ UNCHANGED <<open, closing, idMax, counter, locks, cl, flusher, restoreErr,
                   history, ledger>>
    /\ UNCHANGED bench

PersistNext ==
    \/ \E vec \in Points, attrs \in AttrChoices : WriteOnly(vec, attrs)
    \/ \E rev \in Orders, fault \in SyncFaults, at \in 0..MaxIds : Sync(rev, fault, at)

PersistSpec == Init /\ [][PersistNext]_vars

\* ------------------------------------- Restore next to the other callers
\* NewPersistenceWithEncoder in a new process on the directory: the file as the
\* last process closed it, initCounter, nothing pending, empty indexes.  One
\* restart is followed.
NewPersistence ==
    /\ rx.pc = "none"
    /\ walFile' = walFile \o walBuf
    /\ walBuf' = <<>>
    /\ pendingLogs' = <<>>
    /\ filterIndex' = {}
    /\ vectorIndex' = <<>>
    /\ counter' = InitCounter(walFile \o walBuf)
    /\ rx' = [pc |-> "fresh", read |-> <<>>]
    /\ ret' = NoRet
    /\ UNCHANGED <<open, closing, scalar, idMax, locks, cl, flusher, restoreErr,
                   history, ledger>>
    /\ UNCHANGED <<gen, fx, ux, lk>>

\* Restore from p.mu.Lock() to the p.mu.Unlock() before Sync: nil for an empty
\* file or when no record decodes, else the records read become the queue
RestoreRead ==
    /\ rx.pc = "fresh"
    /\ IF ReadRecords(walFile) = <<>>
       THEN /\ rx' = [rx EXCEPT !.pc = "done"]
            /\ UNCHANGED pendingLogs
       ELSE /\ rx' = [pc |-> "installed", read |-> ReadRecords(walFile)]
            /\ pendingLogs' = ReadRecords(walFile)
    /\ ret' = NoRet
    /\ UNCHANGED <<open, closing, disk, walBuf, counter, filterIndex, vectorIndex,
                   locks, cl, flusher, restoreErr, history, ledger>>
    /\ UNCHANGED <<gen, fx, ux, lk>>

\* the p.Sync call of Restore, which takes p.mu itself; its error ends Restore
RestoreSync(rev) ==
    /\ rx.pc = "installed"
    /\ Store(SyncLocked(Mem, rev))
    /\ rx' = [rx EXCEPT !.pc = IF SyncLocked(Mem, rev).err THEN "done" ELSE "applied"]
    /\ ret' = NoRet
    /\ UNCHANGED <<open, closing, idMax, counter, locks, cl, flusher, restoreErr,
                   history, ledger>>
    /\ UNCHANGED <<gen, fx, ux, lk>>

\* Restore from the p.mu.Lock() after Sync: truncateWAL
RestoreTruncate ==
    /\ rx.pc = "applied"
    /\ walFile' = <<>>
    /\ walBuf' = <<>>
    /\ rx' = [rx EXCEPT !.pc = "done"]
    /\ ret' = NoRet
    /\ UNCHANGED <<open, closing, scalar, idMax, counter, pendingLogs, filterIndex,
                   vectorIndex, locks, cl, flusher, restoreErr, history, ledger>>
    /\ UNCHANGED <<gen, fx, ux, lk>>

RestoreNext ==
    \/ NewPersistence
    \/ RestoreRead
    \/ \E rev \in Orders : RestoreSync(rev)
    \/ RestoreTruncate
    \/ \E vec \in Points, attrs \in AttrChoices : WriteOnly(vec, attrs)
    \/ \E rev \in Orders : Sync(rev, "none", 0)

RestoreSpec == Init /\ [][RestoreNext]_vars

\* ------------------------------------------------ IntFilterIndex on its own
MaxHi     == 1        \* largest upper half of an identifier
MaxLo     == 2        \* largest lower half of an identifier
MaxTarget == 2        \* largest attribute value

FxIds    == [hi : 0..MaxHi, lo : 1..MaxLo]
FxFields == {"cat"}
FxValues == 1..MaxTarget
FxInputs == [field : FxFields, op : {"equal", "not_equal"}, target : FxValues]
FxLists  == {<<a>> : a \in FxInputs} \cup {<<a, b>> : a, b \in FxInputs}

\* fx.idx is the index, fx.live the <<field, value, identifier>> upserted and
\* not removed since, fx.out the filter list and the bitmap of the last Apply
\* loop on the index as it is
FxUpsert(f, v, id) ==
    /\ fx' = [idx  |-> FilterUpsert(fx.idx, f, v, id),
              live |-> fx.live \cup {<<f, v, id>>},
              out  |-> NoOut]
    /\ UNCHANGED <<dbVars, gen, ux, lk, rx>>

FxRemove(f, v, id) ==
    /\ fx' = [idx  |-> FilterRemove(fx.idx, f, v, id),
              live |-> fx.live \ {<<f, v, id>>},
              out  |-> NoOut]
    /\ UNCHANGED <<dbVars, gen, ux, lk, rx>>

\* the filter loop of Query on an empty seed
FxApply(list) ==
    /\ fx' = [fx EXCEPT !.out = [list |-> list, got |-> Restriction(fx.idx, list)]]
    /\ UNCHANGED <<dbVars, gen, ux, lk, rx>>

FxInit == DbInit /\ gen = NoGen /\ ux = NoUx /\ lk = NoLk /\ rx = NoRx /\ fx = NoFx

FxNext ==
    \/ \E f \in FxFields, v \in FxValues, id \in FxIds : FxUpsert(f, v, id)
    \/ \E f \in FxFields, v \in FxValues, id \in FxIds : FxRemove(f, v, id)
    \/ \E list \in FxLists : FxApply(list)

FilterSpec == FxInit /\ [][FxNext]_vars

\* ------------------------------------- identifiers from GenIncrIDs to Upsert
\* GenIncrIDs on a ceiling of 64 bits; the lower half stays far from its carry
GenIncrIDs64(maxID, count) ==
    [i \in 1..count |-> [hi |-> maxID.hi, lo |-> GenIncrIDs(maxID.lo, count)[i]]]

RECURSIVE UpsertAll(_, _, _, _)
UpsertAll(filt, f, v, ids) ==
    IF ids = <<>> THEN filt
    ELSE UpsertAll(FilterUpsert(filt, f, v, Head(ids)), f, v, Tail(ids))

\* VectorDatabase.Upsert of rows with the attribute f = v on a scalar store
\* whose __id_max__ entry is maxID: the identifiers of GenIncrIDs go through
\* Write to phase 2 of syncLocked as they are
UpsertRows(maxID, rows, f, v) ==
    /\ fx' = [idx  |-> UpsertAll(fx.idx, f, v, GenIncrIDs64(maxID, rows)),
              live |-> fx.live \cup {<<f, v, GenIncrIDs64(maxID, rows)[i]>> : i \in 1..rows},
              out  |-> NoOut]
    /\ UNCHANGED <<dbVars, gen, ux, lk, rx>>

CeilingNext ==
    \/ \E maxID \in [hi : 0..MaxHi, lo : 0..MaxPrev], rows \in 1..MaxRows,
           f \in FxFields, v \in FxValues : UpsertRows(maxID, rows, f, v)
    \/ \E list \in FxLists : FxApply(list)

CeilingSpec == FxInit /\ [][CeilingNext]_vars

\* ------------------------------- the indexes and the scalar store on their own
MaxUx == 2            \* largest identifier of the stores drawn
MaxK  == 2            \* largest k of a Search

UxIds == 1..MaxUx

\* the indexes Insert can have built: distinct labels in any order
UxIndexes ==
    {<<>>}
    \cup {<<[id |-> a, vec |-> p]>> : a \in UxIds, p \in Points}
    \cup {s \in {<<[id |-> a, vec |-> p], [id |-> b, vec |-> r]>> :
                      a \in UxIds, b \in UxIds, p \in Points, r \in Points} :
              s[1].id # s[2].id}

\* the docs namespaces Put can have built: per identifier no entry, a
\* document, or the empty value of rollbackScalar
UxStores ==
    UNION {[D -> {"doc", "nil"}] : D \in SUBSET UxIds}

UxScalar(st) ==
    [id \in DOMAIN st |->
        IF st[id] = "doc"
        THEN DocValue([id |-> id, doc |-> "doc", attrs |-> NoAttrs])
        ELSE NilValue(id)]

UxRequests == {<<>>} \cup {<<a>> : a \in 1..MaxUx + 1}
                     \cup {<<a, b>> : a, b \in 1..MaxUx + 1}

\* Index.Search on the index drawn
UxSearch(kind, q, k, hasFilter, bitmap) ==
    /\ \E o \in IndexSearch(kind, ux.vidx, q, k, hasFilter, bitmap) :
          ux' = [ux EXCEPT !.out = [NoCall EXCEPT !.op = "search", !.kind = kind, !.q = q,
                                                  !.k = k, !.has = hasFilter, !.bitmap = bitmap,
                                                  !.status = o.status, !.labels = o.labels]]
    /\ UNCHANGED <<dbVars, gen, fx, lk, rx>>

\* MultiGetValue on the docs namespace drawn
UxMultiGet(ids) ==
    /\ LET got == MultiGetValue(ux.scal, ids)
       IN  ux' = [ux EXCEPT !.out = [NoCall EXCEPT !.op = "multiget", !.req = ids,
                                                  !.status = IF got.err THEN "err" ELSE "ok",
                                                  !.docs = got.docs]]
    /\ UNCHANGED <<dbVars, gen, fx, lk, rx>>

UxInit ==
    /\ DbInit /\ gen = NoGen /\ fx = NoFx /\ lk = NoLk /\ rx = NoRx
    /\ \E vi \in UxIndexes, st \in UxStores :
          ux = [vidx |-> vi, scal |-> UxScalar(st), out |-> NoCall]

UxNext ==
    \/ \E kind \in {"flat", "hnsw"}, q \in Points, k \in 0..MaxK :
          \/ UxSearch(kind, q, k, FALSE, {})
          \/ \E bitmap \in SUBSET UxIds : UxSearch(kind, q, k, TRUE, bitmap)
    \/ \E ids \in UxRequests : UxMultiGet(ids)

UnitSpec == UxInit /\ [][UxNext]_vars

\* --------------------------------------------------------------- properties
\* Query as one function of the stores: the outcome for the input a
Answer(vidx, fidx, scal, a) ==
    LET labels == Search(vidx, a.q, a.k, a.filt # <<>>, Restriction(fidx, a.filt))
        got    == MultiGetValue(scal, DropNegative(labels))
    IN  IF ~DimOk(a.qlen) THEN [status |-> "rejected", docs |-> <<>>]
        ELSE IF Faults(vidx, a.k) THEN [status |-> "err", docs |-> <<>>]
        ELSE IF Len(labels) = 0 THEN [status |-> "ok", docs |-> <<>>]
        ELSE IF got.err THEN [status |-> "err", docs |-> <<>>]
        ELSE [status |-> "ok", docs |-> got.docs]

DocIds(docs) == {docs[i].id : i \in 1..Len(docs)}
RetIds       == {ret.ids[i] : i \in 1..Len(ret.ids)}

\* the record id is in the scalar store, in the filter index under each of
\* its attributes, and in the vector index
Present(id, scal, fidx, vidx) ==
    /\ id \in DOMAIN scal
    /\ scal[id].live
    /\ \A f \in DOMAIN scal[id].attrs :
          /\ scal[id].attrs[f].kind = "num"
          /\ <<f, scal[id].attrs[f].v, U32(U64(id))>> \in fidx
    /\ id \in Labels(vidx)

\* the step in which NewVectorDatabase returns
NewSession == ~open /\ open'

\* the unrestricted queries with k not below the number of records
FullInputs == {a \in QueryInputs : DimOk(a.qlen) /\ FullScan(a.k, a.filt)}

\* C1: a Query that was called after Upsert returned nil for a batch, that
\* carries no filter and asks for at least as many neighbours as there are
\* committed records, returns a document for every identifier of the batch.
C1_UpsertedIsReturned ==
    (ret.op = "query" /\ ret.full) =>
        \A id \in ret.seen : ret.status = "ok" /\ id \in RetIds

\* C2: every document Query returns belongs to a record that is in the
\* scalar store, in the filter index under each of its attributes, and in the
\* vector index.  The read lock is held from the search to the return, so the
\* stores at the return are the stores of the search.
C2_ReturnedIsInAllStores ==
    (ret.op = "query" /\ ret.status = "ok") =>
        \A id \in RetIds : Present(id, scalar, filterIndex, vectorIndex)

C2_Witness ==
    /\ ret.op = "query" /\ ret.status = "ok"
    /\ \E id \in RetIds : id \in DOMAIN scalar /\ DOMAIN scalar[id].attrs # {}
    /\ \E id \in DOMAIN scalar : ~scalar[id].live

\* C3: after successful Upserts and a clean Close, every Query has the same
\* outcome on the reopened database as on the database just before Close.
C3_ReopenSameAnswers ==
    [][(NewSession /\ clean) =>
          \A a \in QueryInputs :
              Answer(vectorIndex', filterIndex', scalar', a)
                  = Answer(vectorIndex, filterIndex, scalar, a)]_vars

\* C4: after any number of clean Close / reopen cycles, every record an Upsert
\* committed is still returned by an unrestricted Query with k not below the
\* number of records.
C4_CyclesKeepRecords ==
    [][(NewSession /\ clean) =>
          \A a \in FullInputs :
              acked \subseteq DocIds(Answer(vectorIndex', filterIndex', scalar', a).docs)]_vars

\* C5: the records that were flushed to the WAL and not committed when the
\* process stopped are all replayed at the next open: each is then in the
\* three stores, and the WAL file is empty.
C5_FlushedAreReplayed ==
    [][(NewSession /\ \A i \in 1..Len(walFile) : walFile[i].crc) =>
          LET left == {i \in 1..Len(walFile) : walFile[i].id \notin Labels(vectorIndex)}
          IN  left # {} =>
                /\ \A i \in left : Present(walFile[i].id, scalar', filterIndex', vectorIndex')
                /\ walFile' = <<>>]_vars

\* C6: whenever Restore returns nil, whatever the WAL file held, the pending
\* queue is empty and the WAL file is truncated to zero bytes.
C6_RestoreNilLeavesNothing ==
    [][(NewSession /\ restoreErr' = "ok") =>
          (pendingLogs' = <<>> /\ walFile' = <<>>)]_vars

\* C7: when the first corrupt record of the WAL is at position j, Restore
\* returns nil and has applied exactly the j-1 records before it to the
\* three stores, and no record behind it.
C7_PrefixBeforeCorruptIsApplied ==
    [][(NewSession /\ ReadableLen(walFile) < Len(walFile)) =>
          LET j == ReadableLen(walFile) + 1
          IN  /\ restoreErr' = "ok"
              /\ Labels(vectorIndex') = {walFile[i].id : i \in 1..(j - 1)}
              /\ \A i \in 1..(j - 1) :
                    Present(walFile[i].id, scalar', filterIndex', vectorIndex')]_vars

\* C8: an Upsert whose vectors do not have Dim columns returns an error and
\* changes nothing: no identifier is allocated, the WAL, the log-id counter,
\* the pending queue and the three stores stay as they were.
C8_WrongDimChangesNothing ==
    [][(ret'.op = "upsert" /\ ret'.args.cols # Dim) =>
          (ret'.status = "rejected" /\ UNCHANGED <<disk, memory>>)]_vars

C8_Witness ==
    /\ ret.op = "upsert" /\ ret.args.cols # Dim /\ ret.status = "rejected"
    /\ idMax > 0 /\ vectorIndex # <<>>

\* C9: Upsert accepts every batch whose vectors have Dim columns, whose docs
\* list is empty or has one entry per row and whose attributes list is empty
\* or has one entry per row.
C9_WellFormedIsAccepted ==
    (/\ ret.op = "upsert"
     /\ ret.args.cols = Dim
     /\ ret.args.docsLen \in {0, ret.args.rows}
     /\ ret.args.attrsLen \in {0, ret.args.rows}) => ret.status # "rejected"

\* C10: in a batch of n rows that Upsert returns nil for, row i has identifier
\* first+i and log-id firstLog+i: both run consecutively in row order.
C10_BatchIsConsecutive ==
    (ret.op = "upsert" /\ ret.status = "ok") =>
        /\ Len(ret.ids) = ret.args.rows
        /\ Len(ret.logs) = ret.args.rows
        /\ \A i \in 1..ret.args.rows :
              /\ ret.ids[i]  = ret.ids[1] + (i - 1)
              /\ ret.logs[i] = ret.logs[1] + (i - 1)

C10_Witness ==
    /\ ret.op = "upsert" /\ ret.status = "ok"
    /\ Len(ret.ids) > 1
    /\ ret.ids[1] > 1 /\ ret.logs[1] > 1


\* C11: over Upserts that succeed, are rejected or fail partway, and over
\* close / reopen cycles, the identifiers handed to rows increase strictly in
\* allocation order and no identifier is handed out twice.
C11_IdsIncreaseAndAreFresh ==
    [][\A c \in Clients :
          (cl[c].pc = "idle" /\ cl'[c].pc = "u_row") =>
              LET ids == cl'[c].ids
              IN  /\ \A i \in 1..Len(ids) : \A h \in handed : h < ids[i]
                  /\ \A i, j \in 1..Len(ids) : i < j => ids[i] < ids[j]]_vars

C11_Witness ==
    \E c \in Clients :
        /\ cl[c].pc = "u_row" /\ cl[c].i = 1 /\ cl[c].ids[1] > 1
        /\ ~clean /\ encoded < cl[c].ids[1] - 1

\* the counts of the calls in T, added up
RECURSIVE SumCounts(_)
SumCounts(T) ==
    IF T = {} THEN 0
    ELSE LET t == CHOOSE x \in T : TRUE
         IN  gen.th[t].count + SumCounts(T \ {t})

GenDone     == {t \in Threads : gen.th[t].pc = "done"}
GenRange(t) == {gen.th[t].ids[i] : i \in 1..Len(gen.th[t].ids)}

\* C12: concurrent GenIncrIDs calls with counts n1..nm on a namespace whose
\* ceiling is prev each return a contiguous range; the ranges are pairwise
\* disjoint and, once the calls have returned, their union is
\* prev+1 .. prev+(n1+...+nm).
C12_RangesPartition ==
    /\ \A t \in GenDone :
          /\ Len(gen.th[t].ids) = gen.th[t].count
          /\ \A i \in 1..Len(gen.th[t].ids) : gen.th[t].ids[i] = gen.th[t].ids[1] + (i - 1)
    /\ \A t, u \in GenDone : t # u => GenRange(t) \cap GenRange(u) = {}
    /\ (\A t \in Threads : gen.th[t].pc \in {"idle", "done"}) =>
          UNION {GenRange(t) : t \in GenDone}
              = (gen.prev + 1)..(gen.prev + SumCounts(GenDone))

C12_Witness ==
    /\ GenDone = Threads
    /\ gen.prev > 0
    /\ \E t, u \in Threads : gen.th[t].count # gen.th[u].count


\* C13: the WAL log-id counter of an open database equals the number of WAL
\* records encoded since the directory was created, records of earlier
\* sessions included, across Restore with truncation and reopen.  Stated for
\* the histories of successful Upserts, Queries and clean closes.
C13_LogIdCountsRecords == (open /\ clean) => counter = encoded


\* C14: in every state, the states after a failed commit and its rollback and
\* after a failed Restore included, every identifier of the vector index has a
\* live document in the docs namespace of the scalar store.
C14_IndexedHasDocument ==
    \A id \in Labels(vectorIndex) : id \in DOMAIN scalar /\ scalar[id].live

C14_Witness ==
    /\ open
    /\ Labels(vectorIndex) # {}
    /\ \E id \in DOMAIN scalar : ~scalar[id].live
    /\ ret.op = "upsert" /\ ret.status = "err"


\* the document holds a number under the field of the filter and the number
\* passes the comparison of the filter
Satisfies(doc, f) ==
    /\ f.field \in DOMAIN doc.attrs
    /\ doc.attrs[f.field].kind = "num"
    /\ IF f.op = "equal" THEN doc.attrs[f.field].v = f.target
                          ELSE doc.attrs[f.field].v # f.target

\* C16: a Query with one filter on an integer field (equal or not_equal),
\* whatever the target and whether or not the filter selects a committed
\* record, returns only documents whose value for the field satisfies the
\* filter.
C16_ReturnedSatisfyFilter ==
    (\E c \in Clients : cl[c].pc = "q_search") =>
        \A a \in QueryInputs :
            Len(a.filt) = 1 =>
                LET docs == Answer(vectorIndex, filterIndex, scalar, a).docs
                IN  \A i \in 1..Len(docs) : Satisfies(docs[i], a.filt[1])


\* C19: a Query of the right dimension returns at most min(k, number of
\* vectors in the index) documents, none of them for a negative label, and on
\* a database without committed records it returns an empty list without
\* error, for every k.
C19_AtMostKAndNoneWhenEmpty ==
    (\E c \in Clients : cl[c].pc = "q_search") =>
        \A a \in QueryInputs :
            DimOk(a.qlen) =>
                LET r == Answer(vectorIndex, filterIndex, scalar, a)
                IN  /\ r.status = "ok" =>
                          /\ Len(r.docs) <= Min(a.k, Len(vectorIndex))
                          /\ \A i \in 1..Len(r.docs) : r.docs[i].id >= 0
                    /\ vectorIndex = <<>> => r.status = "ok" /\ r.docs = <<>>


\* C15: for every field f and value v, Apply with Equal(f, v) on an empty
\* seed returns exactly the identifiers for which Upsert(f, v, id) was called
\* and not removed later.
C15_EqualReturnsUpserted ==
    (Len(fx.out.list) = 1 /\ fx.out.list[1].op = "equal") =>
        {U64(n) : n \in fx.out.got}
            = {t[3] : t \in {u \in fx.live : /\ u[1] = fx.out.list[1].field
                                             /\ u[2] = fx.out.list[1].target}}

\* C17: the restriction of a Query with several filters is the union of the
\* identifier sets each filter selects alone, in whatever order the filters
\* come.
C17_RestrictionIsUnion ==
    Len(fx.out.list) > 1 =>
        /\ fx.out.got = UNION {Apply(fx.idx, fx.out.list[i], {}) : i \in 1..Len(fx.out.list)}
        /\ fx.out.got = Restriction(fx.idx, Reverse(fx.out.list))

C17_Witness ==
    /\ Len(fx.out.list) = 2
    /\ LET a == Apply(fx.idx, fx.out.list[1], {})
           b == Apply(fx.idx, fx.out.list[2], {})
       IN  a \ b # {} /\ b \ a # {} /\ fx.out.got = a \cup b


\* C18: for the flat and for the HNSW index, a Search whose query carries an
\* identifier filter without identifiers returns the labels of the Search
\* without filter.
C18_EmptyFilterIsNoFilter ==
    (ux.out.op = "search" /\ ux.out.has /\ ux.out.bitmap = {}) =>
        [status |-> ux.out.status, labels |-> ux.out.labels]
            \in IndexSearch(ux.out.kind, ux.vidx, ux.out.q, ux.out.k, FALSE, {})

CommitFailed ==
    \/ open /\ ret'.op = "upsert" /\ ret'.status = "err"
    \/ NewSession /\ restoreErr' = "err"

\* the filter index the attempt started from: the index of the session, or
\* the empty index NewVectorDatabase builds
FilterBefore == IF open THEN filterIndex ELSE {}
VectorBefore == IF open THEN vectorIndex ELSE <<>>

\* C21: when a commit fails in phase 2 on an attribute that does not coerce,
\* the filter index holds no entry the attempt added, the scalar store holds
\* no live document the attempt wrote, and the vector index is as before.
C21_FailedCommitLeavesNoEntry ==
    [][CommitFailed =>
          /\ filterIndex' \subseteq FilterBefore
          /\ \A i \in 1..Len(pendingLogs') :
                ~(pendingLogs'[i].id \in DOMAIN scalar' /\ scalar'[pendingLogs'[i].id].live)
          /\ vectorIndex' = VectorBefore]_vars


\* the step is a Persistence.Sync call that returned
SyncStep == ret'.op = "sync"

\* the documents of the docs namespace, without the empty values
LiveDocs(scal) == {scal[id] : id \in {k \in DOMAIN scal : scal[k].live}}

\* C22: when the vector-index insert of phase 3 fails, commit returns the
\* error and every scalar put and every filter entry of phases 1 and 2 is
\* undone: the three stores hold the records they held before the commit.
C22_FailedInsertRestoresStores ==
    [][(SyncStep /\ ret'.status = "insert") =>
          /\ LiveDocs(scalar') = LiveDocs(scalar)
          /\ filterIndex' = filterIndex
          /\ vectorIndex' = vectorIndex]_vars

\* C25: a commit changes the scalar store, the filter index or the vector
\* index only after the buffered WAL bytes of all pending records are flushed
\* and fsynced; when the flush or the fsync fails the commit returns the
\* error, changes no store and keeps every pending record in the queue.
C25_StoresChangeAfterFlush ==
    [][SyncStep =>
          /\ (scalar' # scalar \/ filterIndex' # filterIndex \/ vectorIndex' # vectorIndex) =>
                /\ ret'.status \notin {"flush", "fsync"}
                /\ walBuf' = <<>>
                /\ \A i \in 1..Len(pendingLogs) :
                      \E j \in 1..Len(walFile') : walFile'[j] = EncodeRecord(pendingLogs[i])
          /\ ret'.status \in {"flush", "fsync"} =>
                /\ scalar' = scalar /\ filterIndex' = filterIndex /\ vectorIndex' = vectorIndex
                /\ pendingLogs' = pendingLogs]_vars

C25_Witness ==
    /\ ret.op = "sync" /\ ret.status \in {"flush", "fsync"}
    /\ Len(pendingLogs) > 0
    /\ vectorIndex # <<>>

\* C30: a commit empties the pending queue exactly when it succeeds: after a
\* successful commit the queue is empty, after a commit that fails in any
\* phase the queue holds the same records in the same order as before.
C30_PendingClearedOnSuccessOnly ==
    [][SyncStep =>
          IF ret'.status = "none" THEN pendingLogs' = <<>>
          ELSE pendingLogs' = pendingLogs /\ pendingLogs # <<>>]_vars

C30_Witness ==
    /\ ret.op = "sync" /\ ret.status = "put"
    /\ Len(pendingLogs) > 1


\* the answer to a Query that starts in this state: pending records are
\* committed first, and a failed commit is the answer
QueryNow(a) ==
    IF pendingLogs = <<>> THEN Answer(vectorIndex, filterIndex, scalar, a)
    ELSE LET m == SyncLocked(Mem, FALSE)
         IN  IF m.err THEN [status |-> "err", docs |-> <<>>]
             ELSE Answer(m.vidx, m.filt, m.scal, a)

\* C23: when Upsert fails at row i it returns the error of row i, writes no
\* later row, and every row before i stays in the scalar store, the filter
\* index and the vector index and stays returned by queries.
C23_EarlierRowsStay ==
    (ret.op = "upsert" /\ ret.status = "err") =>
        /\ \A c \in Clients : cl[c].pc # "u_row"
        /\ \A j \in 1..(Len(ret.logs) - 1) :
              /\ Present(ret.ids[j], scalar, filterIndex, vectorIndex)
              /\ \A a \in FullInputs :
                    /\ QueryNow(a).status = "ok"
                    /\ ret.ids[j] \in DocIds(QueryNow(a).docs)


C26_CloseWaitsForFlusher ==
    /\ [](flusher \in {"wait", "lock"} => open)
    /\ [](flusher = "done" => open /\ closing)
    /\ (closing ~> ~open)

C26_Witness ==
    /\ open /\ closing /\ flusher = "done"
    /\ \E c \in Clients : cl[c].pc # "idle"


\* C27: for the binary encoder, DecodeRecord of the bytes EncodeRecord wrote
\* for a record r returns a record equal to r in every field.  The pending
\* queue holds the records as they were passed to EncodeRecord, the buffered
\* writer the bytes.
C27_DecodeInvertsEncode ==
    \A i \in 1..Len(pendingLogs) : \A j \in 1..Len(walBuf) :
        walBuf[j].logID = pendingLogs[i].logID =>
            DecodeRecord(walBuf[j]) = pendingLogs[i]


\* C28: in every interleaving of Query, Upsert and flusher threads, the
\* pending queue is empty whenever a Query is about to read the filter index
\* and search the vector index, also when the Query gave up the read lock,
\* took the write lock, committed and took the read lock again.
C28_SearchSeesNoPending ==
    \A c \in Clients : cl[c].pc = "q_search" => pendingLogs = <<>>


\* ------------------------------------------------------ db.mu and p.mu
\* Every Lock, RLock, Unlock and RUnlock of Upsert, Query, backgroundSync and
\* Close is a step of its own; what the calls do to the stores is left to the
\* other specifications, only whether records are pending is kept.

Drop(held, lock) == SelectSeq(held, LAMBDA e : e # lock)

Unlock_held(holder, t) == holder

\* sync.Mutex.Unlock
Unlock(holder, t) == IF holder = t THEN NoThread ELSE holder

\* the positions at which a goroutine calls or is inside a method of
\* Persistence that takes p.mu: GetPendingCount, Write, Sync, Flush, Close
WalSteps == {"u_write", "q_count", "q_count2", "q_sync", "f_count", "f_count2",
             "f_sync", "f_log", "f_scount", "f_ssync", "c_flush", "c_close"}

\* the positions at which a goroutine is blocked in db.mu.RLock()
RLockSteps == {"q_rlock", "q_relock"}

At(t, p) == lk.pc[t] = p

\* inside the method of p the goroutine is at
In(t, p) == At(t, p) /\ lk.wal = t

Goto(l, t, p) == [l EXCEPT !.pc[t] = p]

\* the deferred p.mu.Unlock() of the method
Leave(l, t) ==
    [l EXCEPT !.wal = Unlock(l.wal, t),
              !.held[t] = IF Unlock(l.wal, t) = t THEN @ ELSE Drop(@, "wal")]

\* db.mu.Lock() is called: later RLock calls queue behind it
DbLockCall(l, t) == [l EXCEPT !.dbQ = @ \cup {t}]

DbUnlock(l, t) == [l EXCEPT !.dbW = NoThread, !.held[t] = Drop(@, "db")]

\* a Query that returns without its deferred RUnlock; C39 tells it from
\* DbRUnlock
DbRUnlock_skip(l, t) == l

DbRUnlock(l, t) == [l EXCEPT !.dbR = @ \ {t}, !.held[t] = Drop(@, "db")]

\* p.mu.Lock() returns
WalLock(t) ==
    /\ lk.pc[t] \in WalSteps
    /\ lk.wal = NoThread
    /\ lk' = [lk EXCEPT !.wal = t, !.held[t] = Append(@, "wal")]
    /\ UNCHANGED <<dbVars, gen, fx, ux, rx>>

\* db.mu.Lock() returns: no writer and no reader is left
DbLock(t) ==
    /\ t \in lk.dbQ
    /\ lk.dbW = NoThread
    /\ lk.dbR = {}
    /\ lk' = [lk EXCEPT !.dbW = t, !.dbQ = @ \ {t}, !.held[t] = Append(@, "db"),
                        !.pc[t] = CASE At(t, "u_lock")  -> "u_write"
                                    [] At(t, "q_lock")  -> "q_count2"
                                    [] At(t, "f_lock")  -> "f_count2"
                                    [] At(t, "f_slock") -> "f_scount"
                                    [] At(t, "c_lock")  -> "c_flush"]
    /\ UNCHANGED <<dbVars, gen, fx, ux, rx>>

\* db.mu.RLock() returns: no writer holds the lock and none is waiting for it
DbRLock(t) ==
    /\ lk.pc[t] \in RLockSteps
    /\ lk.dbW = NoThread
    /\ lk.dbQ = {}
    /\ lk' = [lk EXCEPT !.dbR = @ \cup {t}, !.held[t] = Append(@, "db"),
                        !.pc[t] = IF At(t, "q_rlock") THEN "q_count" ELSE "q_search"]
    /\ UNCHANGED <<dbVars, gen, fx, ux, rx>>

\* Upsert: Lock, one Write per row (the commit may leave its record pending),
\* the deferred Unlock
UpsertLocks(t) ==
    /\ \/ At(t, "idle") /\ lk' = Goto(DbLockCall(lk, t), t, "u_lock")
       \/ /\ In(t, "u_write")
          /\ \E left \in BOOLEAN, more \in BOOLEAN :
                lk' = Goto([Leave(lk, t) EXCEPT !.pend = left], t,
                           IF more /\ ~left THEN "u_write" ELSE "u_unlock")
       \/ At(t, "u_unlock") /\ lk' = Goto(DbUnlock(lk, t), t, "idle")
    /\ UNCHANGED <<dbVars, gen, fx, ux, rx>>

\* Query: RLock, GetPendingCount; with records pending RUnlock, Lock,
\* GetPendingCount, Sync, Unlock, RLock; the search; the deferred RUnlock
QueryLocks(t) ==
    /\ \/ At(t, "idle") /\ lk' = Goto(lk, t, "q_rlock")
       \/ In(t, "q_count")
             /\ lk' = Goto(Leave(lk, t), t, IF lk.pend THEN "q_upgrade" ELSE "q_search")
       \/ At(t, "q_upgrade")
             /\ lk' = Goto(DbLockCall(DbRUnlock(lk, t), t), t, "q_lock")
       \/ In(t, "q_count2")
             /\ lk' = Goto(Leave(lk, t), t, IF lk.pend THEN "q_sync" ELSE "q_unlock")
       \/ /\ In(t, "q_sync")
          /\ \E left \in BOOLEAN :
                lk' = Goto([Leave(lk, t) EXCEPT !.pend = left], t, "q_unlock")
       \/ At(t, "q_unlock") /\ lk' = Goto(DbUnlock(lk, t), t, "q_relock")
       \/ At(t, "q_search") /\ lk' = Goto(DbRUnlock(lk, t), t, "idle")
    /\ UNCHANGED <<dbVars, gen, fx, ux, rx>>

\* backgroundSync, case <-ticker.C: GetPendingCount without db.mu; with records
\* pending Lock, GetPendingCount, Sync, GetPendingCount for the log line, Unlock
TickerLocks ==
    LET t == "flusher"
    IN  /\ \/ At(t, "idle") /\ lk' = Goto(lk, t, "f_count")
           \/ In(t, "f_count")
                 /\ lk' = IF lk.pend THEN Goto(DbLockCall(Leave(lk, t), t), t, "f_lock")
                                      ELSE Goto(Leave(lk, t), t, "idle")
           \/ In(t, "f_count2")
                 /\ lk' = Goto(Leave(lk, t), t, IF lk.pend THEN "f_sync" ELSE "f_unlock")
           \/ /\ In(t, "f_sync")
              /\ \E left \in BOOLEAN :
                    lk' = Goto([Leave(lk, t) EXCEPT !.pend = left], t,
                               IF left THEN "f_unlock" ELSE "f_log")
           \/ In(t, "f_log") /\ lk' = Goto(Leave(lk, t), t, "f_unlock")
           \/ At(t, "f_unlock") /\ lk' = Goto(DbUnlock(lk, t), t, "idle")
        /\ UNCHANGED <<dbVars, gen, fx, ux, rx>>

\* backgroundSync, case <-db.stopSync: Lock, GetPendingCount, Sync, Unlock,
\* return (the deferred syncDone.Done)
StopLocks ==
    LET t == "flusher"
    IN  /\ \/ At(t, "idle") /\ lk.stop /\ lk' = Goto(DbLockCall(lk, t), t, "f_slock")
           \/ In(t, "f_scount")
                 /\ lk' = Goto(Leave(lk, t), t, IF lk.pend THEN "f_ssync" ELSE "f_sunlock")
           \/ /\ In(t, "f_ssync")
              /\ \E left \in BOOLEAN :
                    lk' = Goto([Leave(lk, t) EXCEPT !.pend = left], t, "f_sunlock")
           \/ At(t, "f_sunlock") /\ lk' = Goto(DbUnlock(lk, t), t, "done")
        /\ UNCHANGED <<dbVars, gen, fx, ux, rx>>

\* Close: close(db.stopSync), syncDone.Wait(), Lock, persistence.Flush,
\* persistence.Close, the deferred Unlock
CloseLocks ==
    LET t == "closer"
    IN  /\ \/ At(t, "idle") /\ lk' = Goto([lk EXCEPT !.stop = TRUE], t, "c_wait")
           \/ At(t, "c_wait") /\ At("flusher", "done")
                 /\ lk' = Goto(DbLockCall(lk, t), t, "c_lock")
           \/ In(t, "c_flush") /\ lk' = Goto(Leave(lk, t), t, "c_close")
           \/ In(t, "c_close") /\ lk' = Goto(Leave(lk, t), t, "c_unlock")
           \/ At(t, "c_unlock") /\ lk' = Goto(DbUnlock(lk, t), t, "done")
        /\ UNCHANGED <<dbVars, gen, fx, ux, rx>>

LockNext ==
    \/ \E t \in LockThreads : WalLock(t)
    \/ \E t \in LockThreads : DbLock(t)
    \/ \E t \in Callers : DbRLock(t)
    \/ \E t \in Callers : UpsertLocks(t)
    \/ \E t \in Callers : QueryLocks(t)
    \/ TickerLocks
    \/ StopLocks
    \/ CloseLocks

LockSpec == Init /\ [][LockNext]_vars

\* the goroutines t cannot go on without: the holder of the mutex it asks for,
\* the readers and the writer in front of a Lock, the writers in front of an
\* RLock, backgroundSync for syncDone.Wait
Blockers(t) ==
    (IF lk.pc[t] \in WalSteps /\ lk.wal # t THEN {lk.wal} \ {NoThread} ELSE {})
    \cup (IF t \in lk.dbQ THEN ({lk.dbW} \ {NoThread}) \cup lk.dbR ELSE {})
    \cup (IF lk.pc[t] \in RLockSteps THEN ({lk.dbW} \ {NoThread}) \cup lk.dbQ ELSE {})
    \cup (IF At(t, "c_wait") /\ ~At("flusher", "done") THEN {"flusher"} ELSE {})

RECURSIVE WaitsOn(_, _)
WaitsOn(set, n) ==
    IF n = 0 THEN set
    ELSE WaitsOn(set \cup UNION {Blockers(u) : u \in set}, n - 1)

\* C29: no goroutine calls db.mu.Lock or db.mu.RLock while it holds p.mu, a
\* goroutine holding both took db.mu first, and no interleaving of Upsert,
\* Query, backgroundSync and Close reaches a state in which goroutines wait
\* for each other in a circle.
C29_DbLockBeforeWalLock ==
    \A t \in LockThreads :
        /\ (t \in lk.dbQ \/ lk.pc[t] \in RLockSteps) => lk.wal # t
        /\ (lk.wal = t /\ (lk.dbW = t \/ t \in lk.dbR)) => lk.held[t] = <<"db", "wal">>
        /\ t \notin WaitsOn(Blockers(t), Cardinality(LockThreads))

\* backgroundSync is inside GetPendingCount without db.mu, a Query holding the
\* read lock waits for p.mu, an Upsert waits for the Query and Close waits for
\* backgroundSync
C29_Witness ==
    /\ In("flusher", "f_count")
    /\ \E t \in Callers : At(t, "q_count") /\ t \in lk.dbR /\ lk.wal # t
    /\ \E t \in Callers : At(t, "u_lock") /\ t \in lk.dbQ
    /\ At("closer", "c_wait")


\* every attribute of every record passes the type switch of phase 2
ValidRecords(recs) ==
    \A i \in 1..Len(recs) : \A f \in DOMAIN recs[i].attrs : CoerceOk(recs[i].attrs[f])

\* the record is in the scalar store and in the vector index
Applied(rec, scal, vidx) ==
    /\ rec.id \in DOMAIN scal /\ scal[rec.id].live
    /\ \E j \in 1..Len(vidx) : vidx[j].id = rec.id

\* C31: backgroundSync returns only after the stop signal and goes back to its
\* select after every Sync, failed or not; under fair scheduling a pending
\* queue of valid records becomes empty (unless a later Upsert adds an invalid
\* record), and the records of a queue that became empty are in the scalar
\* store and in the vector index.
C31_FlusherCommitsPending ==
    /\ [][flusher' = "done" => closing]_vars
    /\ [][(flusher = "lock" /\ flusher' # "lock") => flusher' = "wait"]_vars
    /\ [][(pendingLogs # <<>> /\ pendingLogs' = <<>> /\ open')
            => \A i \in 1..Len(pendingLogs) : Applied(pendingLogs[i], scalar', vectorIndex')]_vars
    /\ ((open /\ pendingLogs # <<>> /\ ValidRecords(pendingLogs))
            ~> (pendingLogs = <<>> \/ ~ValidRecords(pendingLogs)))

\* the flusher holds db.mu's turn with valid records pending that an Upsert
\* left behind, and no call is in flight
C31_Witness ==
    /\ open /\ ~closing
    /\ flusher = "lock"
    /\ pendingLogs # <<>> /\ ValidRecords(pendingLogs)
    /\ \A c \in Clients : cl[c].pc = "idle"


\* NewVectorDatabase ran and its Restore returned an error
RestoreFailed == ~open /\ open' /\ restoreErr' = "err"

\* C32: when the commit of Restore fails, Restore returns an error, vdb.log
\* keeps every byte, and the records Restore attempted are the ones the file
\* decodes to, so that the next Restore on the file attempts them again.
C32_FailedRestoreKeepsWAL ==
    [][RestoreFailed =>
          /\ walFile' = walFile
          /\ pendingLogs' = ReadRecords(walFile)
          /\ pendingLogs' = ReadRecords(walFile')]_vars

\* a session whose Restore failed on a file of two records
C32_Witness ==
    /\ open /\ restoreErr = "err"
    /\ Len(walFile) = 2
    /\ pendingLogs = ReadRecords(walFile)


\* C33: between the step of Restore that installs the decoded records as the
\* pending queue and its truncation no other call changes the file, the
\* buffered writer or the queue, and the truncation removes from vdb.log only
\* the records Restore read.
C33_RestoreIsAtomic ==
    /\ [][(rx.pc \in {"installed", "applied"} /\ rx' = rx)
            => UNCHANGED <<walFile, walBuf, pendingLogs>>]_vars
    /\ [][(rx.pc = "applied" /\ rx'.pc = "done")
            => ReadRecords(walFile \o walBuf) = rx.read]_vars


\* C34: every identifier Upsert hands to the filter index is below 2^32, and
\* two identifiers handed to it never share a bitmap element.
C34_IdentifiersFitIn32Bits ==
    /\ \A t \in fx.live : t[3].hi = 0
    /\ \A t, u \in fx.live : U32(t[3]) = U32(u[3]) => t[3] = u[3]


\* eager Write of the records one after the other, one commit per record
RECURSIVE EagerAll(_, _, _)
EagerAll(m, recs, rev) ==
    IF recs = <<>> THEN m
    ELSE EagerAll(Write(m, Head(recs).logID - 1, Head(recs).id, Head(recs).vec,
                        Head(recs).doc, Head(recs).attrs, rev),
                  Tail(recs), rev)

\* C35: when Sync commits a queue of valid records that WriteOnly filled, the
\* scalar store, the filter index and the vector index end as eager Writes of
\* the same records, one commit each, leave them, and every Query has the
\* same answer on both.
C35_DeferredEqualsEager ==
    [][(SyncStep /\ ret'.status = "none" /\ pendingLogs # <<>> /\ ValidRecords(pendingLogs))
         => \A rev \in Orders :
              LET e == EagerAll([Mem EXCEPT !.pending = <<>>, !.buf = <<>>], pendingLogs, rev)
              IN  /\ ~e.err
                  /\ pendingLogs' = e.pending
                  /\ scalar' = e.scal
                  /\ filterIndex' = e.filt
                  /\ vectorIndex' = e.vidx
                  /\ \A a \in QueryInputs :
                        Answer(vectorIndex', filterIndex', scalar', a)
                            = Answer(e.vidx, e.filt, e.scal, a)]_vars

\* a Sync has just committed and the stores hold the three records written
C35_Witness ==
    /\ ret.op = "sync" /\ ret.status = "none"
    /\ pendingLogs = <<>>
    /\ Len(vectorIndex) = MaxIds
    /\ Len(walFile) = MaxIds
    /\ \A i \in 1..MaxIds : i \in DOMAIN scalar /\ scalar[i].live


\* C36: the failure of a row with an invalid attribute stays with that row: a
\* row of Upsert fails only when one of its own attributes is invalid, and
\* while no call is in flight a Query that asks for every record succeeds, in
\* the session of the failure and in the sessions after it.
C36_FailedRowBlocksNothing ==
    /\ [][(ret'.op = "upsert" /\ ret'.status = "err" /\ ret'.logs # <<>>)
            => ~ValidRecords(<<pendingLogs'[Len(pendingLogs')]>>)]_vars
    /\ [](open => \A a \in FullInputs : QueryNow(a).status = "ok")


\* C37: a failed commit and a failed Restore leave every live document of the
\* scalar store live: rollbackScalar touches no identifier that had a document
\* when the attempt started.
C37_RollbackKeepsCommitted ==
    [][CommitFailed =>
          \A id \in DOMAIN scalar :
              scalar[id].live => (id \in DOMAIN scalar' /\ scalar'[id].live)]_vars


\* C38: a row for which Upsert returned an error never reaches the vector
\* index.  In one session the pending queue holds exactly the records of such
\* rows (Write appends and commits in one call and Upsert returns its error),
\* so no step may put the identifier of a pending record into the vector index.
C38_FailedRowNeverQueryable ==
    [][\A i \in 1..Len(pendingLogs) : pendingLogs[i].id \notin Labels(vectorIndex')]_vars


\* the number of times "db" is in the list of locks a goroutine holds
DbHeld(t) == Len(SelectSeq(lk.held[t], LAMBDA e : e = "db"))

\* C39: a goroutine that is not inside Query or Upsert holds neither the read
\* lock nor the write lock of db.mu and waits for neither; inside Query it
\* holds db.mu at most once, it holds the read lock where Query calls RUnlock
\* (before the upgrade and at the return, on whatever path the return was
\* reached), and it holds the write lock where Query calls Unlock.
C39_QueryReleasesWhatItHolds ==
    \A t \in Callers :
        /\ At(t, "idle") => (t \notin lk.dbR /\ lk.dbW # t /\ t \notin lk.dbQ /\ DbHeld(t) = 0)
        /\ DbHeld(t) <= 1
        /\ lk.pc[t] \in {"q_upgrade", "q_search"} => (t \in lk.dbR /\ lk.dbW # t)
        /\ At(t, "q_unlock") => (lk.dbW = t /\ t \notin lk.dbR)
        /\ lk.pc[t] \in {"q_lock", "q_relock", "q_rlock"} => (t \notin lk.dbR /\ lk.dbW # t)

\* one Query is back under the read lock after an upgrade, with records
\* still pending, and the other caller is about to ask for the read
\* lock
C39_Witness ==
    /\ At("t1", "q_search") /\ "t1" \in lk.dbR /\ lk.pend
    /\ At("t2", "q_rlock")
    /\ lk.dbW = NoThread /\ lk.dbQ = {}


\* C40: a session never writes the bytes of a record behind an unreadable
\* record: whenever an open database changes vdb.log, every record of the
\* file decodes, so that Restore at the next open reads all of them; this
\* holds also when Restore of the session met a corrupt record, at the first
\* position or later.
C40_NothingBehindUnreadable ==
    [][(open /\ open' /\ walFile' # walFile)
          => ReadableLen(walFile') = Len(walFile')]_vars

====
